---- MODULE Spec2Model ----
(***************************************************************************)
(* Dhaka Monopoly: the Turn Controller (client/src/App.js, the App         *)
(* component) and the Session Gateway (server/index.js, the express        *)
(* handlers), with the rules engine and the History Store at their         *)
(* boundary, and the board: its generation (GET /api/board) and the grid   *)
(* cell of each tile (getBoardPosition).                                   *)
(*                                                                         *)
(* JavaScript null is modelled by a value of the field's own type:         *)
(* NoGame for gameId, NoState for gameState, NoWinner for winner,          *)
(* NoTurnInfo for a missing turnInfo, NoTimer for "no timer pending".      *)
(***************************************************************************)
EXTENDS Integers, Sequences, FiniteSets, TLC

\* ------------------------------------------------------------- bounds
\* sessions the engine creates in one run of the model
MaxSessions == 2
\* the engine reports completion at this turn count at the latest
MaxTurns == 11
\* requests that can be in flight at once (the controller is expected to
\* stay below it)
MaxInFlight == 2
\* responses lost on the way back, after the engine served the request
MaxLost == 1
\* gameIds the Gateway is asked about, and the highest turn count in the
\* engine data it relays
MaxGatewayGames == 1
MaxGatewayTurns == 2
\* tournament records the History Store holds
MaxTournaments == 1

\* ---------------------------------------------------- program constants
\* fastForward(10): the count the "Skip 10 Turns" button passes
FastForwardTurns == 10

\* --------------------------------------------------------- null values
NoGame == 0
NoWinner == -1
NoState == [gid |-> NoGame, turnCount |-> 0]
NoTurnInfo == [turnIndex |-> 0]
NoTimer == [set |-> FALSE, gameId |-> NoGame, gameOver |-> FALSE]

GameIds == 1..MaxSessions
Winners == {0, 1, NoWinner}

Min(a, b) == IF a < b THEN a ELSE b

VARIABLES
    \* ---- Turn Controller: the useState cells of App
    gameState,      \* the state mirror (NoState is null)
    gameId,         \* the active session (NoGame is null)
    history,        \* the turn log, a sequence of turnInfo records
    loading,
    autoPlay,
    gameOver,
    winner,
    \* ---- the auto-play effect's pending setTimeout, with the playTurn
    \* closure (gameId, gameOver) it was created with
    timer,
    \* ---- requests the controller has issued and not yet seen resolved
    inflight,
    \* ---- the rules engine's sessions
    engine,
    lost,           \* responses lost after the engine served the request
    \* ---- observation of the run (history variables, read by no action)
    ev,             \* the last handler that ran, with its request/response
    completedSeen,  \* a completed=true response was applied since create
    autoFailed,     \* a failure was handled while AutoPlaying, and the
                    \* observer has issued no command since
    stepRun,        \* successful steps since create, -1 once anything
                    \* but a successful step happened
    allLogged       \* every turn the session has played was answered
                    \* with its log entry: since create no batch was
                    \* issued and no request failed, or play-to-end has
                    \* delivered the full history

ctlVars == <<gameState, gameId, history, loading, autoPlay, gameOver,
             winner, timer, inflight, engine, lost, ev, completedSeen,
             autoFailed, stepRun, allLogged>>

VARIABLES
    \* ---- Session Gateway: one request being handled
    gwPc,           \* "idle" | "engine" | "store" | "done"
    gwReq,          \* the route and its :gameId
    gwEngine,       \* what the engine call returned or threw
    gwStore,        \* what the History Store call did: "none" (not
                    \* called) | "ok" | "throws"
    gwRes,          \* the HTTP response sent
    \* ---- History Store
    storeUp,        \* the store is reachable
    gameHistory,    \* the GameHistory collection, by gameId
    tournaments,    \* the number of Tournament documents
    \* ---- observation of the run (history variable, read by no action)
    dropped         \* the gameIds whose create write was lost: the store
                    \* call of /api/game/new threw with no record of the
                    \* gameId in the store (a gameId leaves the set when
                    \* the engine issues it again and that create is stored)

gwVars == <<gwPc, gwReq, gwEngine, gwStore, gwRes, storeUp, gameHistory,
            tournaments, dropped>>

VARIABLES
    \* ---- GET /api/board: the locals of the handler's generation loop
    board,          \* the tiles pushed so far
    propertyIdx,    \* property tiles pushed so far
    loopI,          \* the loop index i
    \* ---- GameBoard: the grid cells of the Tile components rendered so
    \* far, in board order
    tiles

boardVars == <<board, propertyIdx, loopI, tiles>>

vars == <<ctlVars, gwVars, boardVars>>

\* ------------------------------------------------------------ requests
Snapshot == [gameId |-> gameId, gameState |-> gameState,
             history |-> history, gameOver |-> gameOver,
             winner |-> winner, autoPlay |-> autoPlay]

NoSnapshot == [gameId |-> NoGame, gameState |-> NoState,
               history |-> <<>>, gameOver |-> FALSE,
               winner |-> NoWinner, autoPlay |-> FALSE]

\* kind: "new" | "turn" | "fast-forward" | "play"; gid: the gameId in the
\* request URL; auto: issued by the auto-play timer; snap: the controller
\* as it was when the request was issued
Request(kind, gid, auto) ==
    [kind |-> kind, gid |-> gid, auto |-> auto, snap |-> Snapshot]

NoRequest == [kind |-> "none", gid |-> NoGame, auto |-> FALSE,
              snap |-> NoSnapshot]

TurnKinds == {"turn", "fast-forward", "play"}

RemoveAt(s, i) == [j \in 1..(Len(s) - 1) |-> IF j < i THEN s[j] ELSE s[j + 1]]

\* ----------------------------------------------------------- responses
\* totalTurns: a field of the play-to-end response only (0 elsewhere)
Response(ok, gid, state, turnInfo, over, w, hist) ==
    [ok |-> ok, gameId |-> gid, state |-> state, turnInfo |-> turnInfo,
     gameOver |-> over, winner |-> w, history |-> hist, totalTurns |-> 0]

WithTotalTurns(resp, n) == [resp EXCEPT !.totalTurns = n]

Failure == Response(FALSE, NoGame, NoState, NoTurnInfo, FALSE, NoWinner, <<>>)

NoResponse == Failure

\* --------------------------------------------------------- rules engine
\* The engine is an external service: a session counts its turns, reports
\* completion at some turn (at MaxTurns at the latest) and then stays
\* completed. Each operator gives the set of <<response, engine'>> pairs
\* the engine may answer with.
NoSession == [exists |-> FALSE, turnCount |-> 0, completed |-> FALSE,
              winner |-> NoWinner]

StateOf(gid, tc) == [gid |-> gid, turnCount |-> tc]

TurnLog(n) == [i \in 1..n |-> [turnIndex |-> i]]

FreshSession == [exists |-> TRUE, turnCount |-> 0, completed |-> FALSE,
                 winner |-> NoWinner]

FreeIds == {g \in GameIds : ~engine[g].exists}

\* The sessions some request in flight addresses.
Addressed == {inflight[i].gid : i \in 1..Len(inflight)}

\* A new session gets the next unused id. The model stops tracking the
\* turns of older sessions that no request in flight addresses: the
\* controller has dropped their gameId and no response depends on them.
EngineNew ==
    IF FreeIds = {} THEN {}
    ELSE LET gid == CHOOSE g \in FreeIds : \A h \in FreeIds : g <= h
         IN  {<<Response(TRUE, gid, StateOf(gid, 0), NoTurnInfo, FALSE,
                         NoWinner, <<>>),
                [g \in GameIds |->
                    IF g = gid \/ (engine[g].exists /\ g \notin Addressed)
                    THEN FreshSession
                    ELSE engine[g]]>>}

EngineTurn(gid) ==
    LET s == engine[gid]
        tc == s.turnCount + 1
    IN  IF s.completed
        THEN {<<Response(TRUE, gid, StateOf(gid, s.turnCount), NoTurnInfo,
                         TRUE, s.winner, <<>>), engine>>}
        ELSE {<<Response(TRUE, gid, StateOf(gid, tc), [turnIndex |-> tc],
                         o.done, o.w, <<>>),
                [engine EXCEPT ![gid] = [exists |-> TRUE, turnCount |-> tc,
                                         completed |-> o.done,
                                         winner |-> o.w]]>> :
              o \in {x \in [done : BOOLEAN, w : Winners] :
                       /\ (tc >= MaxTurns => x.done)
                       /\ (~x.done => x.w = NoWinner)}}

\* up to `turns` turns; fewer only because the game ended
EngineFastForward(gid, turns) ==
    LET s == engine[gid]
    IN  IF s.completed
        THEN {<<Response(TRUE, gid, StateOf(gid, s.turnCount), NoTurnInfo,
                         TRUE, s.winner, <<>>), engine>>}
        ELSE {<<Response(TRUE, gid, StateOf(gid, s.turnCount + o.k),
                         NoTurnInfo, o.done, o.w, <<>>),
                [engine EXCEPT ![gid] = [exists |-> TRUE,
                                         turnCount |-> s.turnCount + o.k,
                                         completed |-> o.done,
                                         winner |-> o.w]]>> :
              o \in {x \in [k : 1..Min(turns, MaxTurns - s.turnCount),
                            done : BOOLEAN, w : Winners] :
                       /\ (x.k < turns => x.done)
                       /\ (s.turnCount + x.k >= MaxTurns => x.done)
                       /\ (~x.done => x.w = NoWinner)}}

\* to completion, with the full turn history
EnginePlay(gid) ==
    LET s == engine[gid]
    IN  IF s.completed
        THEN {<<WithTotalTurns(
                    Response(TRUE, gid, StateOf(gid, s.turnCount), NoTurnInfo,
                             TRUE, s.winner, TurnLog(s.turnCount)),
                    s.turnCount), engine>>}
        ELSE {<<WithTotalTurns(
                    Response(TRUE, gid, StateOf(gid, s.turnCount + o.k),
                             NoTurnInfo, TRUE, o.w,
                             TurnLog(s.turnCount + o.k)),
                    s.turnCount + o.k),
                [engine EXCEPT ![gid] = [exists |-> TRUE,
                                         turnCount |-> s.turnCount + o.k,
                                         completed |-> TRUE,
                                         winner |-> o.w]]>> :
              o \in [k : 1..(MaxTurns - s.turnCount), w : Winners]}

EngineServe(req) ==
    CASE req.kind = "new" -> EngineNew
      [] req.kind = "turn" -> EngineTurn(req.gid)
      [] req.kind = "fast-forward" -> EngineFastForward(req.gid, FastForwardTurns)
      [] req.kind = "play" -> EnginePlay(req.gid)

\* A request fails before it reaches the engine (the engine is unchanged)
\* or after the engine served it (the response is lost).
EngineAfterFailure(req) ==
    {<<engine, lost>>} \cup
    (IF lost < MaxLost
     THEN {<<o[2], lost + 1>> : o \in EngineServe(req)}
     ELSE {})

\* ------------------------------------------------- the rendered controls
GameView == gameId # NoGame

\* a Start Game button that stays enabled while a request is in flight
StartDisabled_Never == FALSE

StartDisabled == loading

PlayTurnDisabled == loading \/ gameOver \/ autoPlay

AutoPlayDisabled == loading \/ gameOver

FastForwardDisabled == loading \/ gameOver \/ autoPlay

PlayToEndDisabled == loading \/ gameOver \/ autoPlay

ModalShown == gameOver /\ winner # NoWinner

CanStart == ~GameView /\ ~StartDisabled
CanStep == GameView /\ ~PlayTurnDisabled
CanToggleAutoPlay == GameView /\ ~AutoPlayDisabled
CanFastForward == GameView /\ ~FastForwardDisabled
CanPlayToEnd == GameView /\ ~PlayToEndDisabled

\* ------------------------------------------------------ auto-play effect
\* useEffect(..., [autoPlay, loading, gameOver, playTurn]); playTurn is
\* rebuilt when gameId or gameOver change. When a dependency changed, the
\* cleanup clears the pending timer and the effect sets a new one if
\* autoPlay && !loading && !gameOver. `cur` is the timer the handler left.
\* the effect's condition without its !loading conjunct
AutoPlayArmed_IgnoresLoading == autoPlay' /\ ~gameOver'

AutoPlayArmed == autoPlay' /\ ~loading' /\ ~gameOver'

AutoPlayEffect(cur) ==
    timer' = IF <<autoPlay', loading', gameOver', gameId'>>
                  = <<autoPlay, loading, gameOver, gameId>>
             THEN cur
             ELSE IF AutoPlayArmed
                  THEN [set |-> TRUE, gameId |-> gameId',
                        gameOver |-> gameOver']
                  ELSE NoTimer

\* ------------------------------------------------------------ observation
Observe(op, req, resp, cs, af, sr) ==
    /\ ev' = [op |-> op, req |-> req, resp |-> resp, wasAuto |-> autoPlay]
    /\ completedSeen' = cs
    /\ autoFailed' = af
    /\ stepRun' = sr
    /\ allLogged' = CASE op \in {"startNewGameThen", "playToEndThen"} -> TRUE
                      [] op \in {"fastForward", "playTurnCatch",
                                 "fastForwardCatch", "playToEndCatch"} -> FALSE
                      [] OTHER -> allLogged
    /\ UNCHANGED <<gwVars, boardVars>>

Send(req) ==
    /\ Len(inflight) < MaxInFlight
    /\ inflight' = Append(inflight, req)

\* ------------------------------------------------------- startNewGame
\* the handler up to its await
startNewGame ==
    /\ loading' = TRUE
    /\ Send(Request("new", NoGame, FALSE))
    /\ UNCHANGED <<gameState, gameId, history, autoPlay, gameOver, winner>>

\* startNewGame's continuation without setHistory([])
startNewGameThen_KeepsLog(resp) ==
    /\ gameId' = resp.gameId
    /\ gameState' = resp.state
    /\ gameOver' = FALSE
    /\ winner' = NoWinner
    /\ loading' = FALSE
    /\ UNCHANGED <<autoPlay, history>>

\* after the await, the response in hand
startNewGameThen(resp) ==
    /\ gameId' = resp.gameId
    /\ gameState' = resp.state
    /\ history' = <<>>
    /\ gameOver' = FALSE
    /\ winner' = NoWinner
    /\ loading' = FALSE
    /\ UNCHANGED autoPlay

startNewGameCatch ==
    /\ loading' = FALSE
    /\ UNCHANGED <<gameState, gameId, history, autoPlay, gameOver, winner>>

\* ----------------------------------------------------------- playTurn
\* gid, over: the gameId and gameOver of the closure that runs
playTurn(gid, over, auto) ==
    IF gid = NoGame \/ over
    THEN UNCHANGED <<gameState, gameId, history, loading, autoPlay,
                     gameOver, winner, inflight>>
    ELSE /\ loading' = TRUE
         /\ Send(Request("turn", gid, auto))
         /\ UNCHANGED <<gameState, gameId, history, autoPlay, gameOver,
                        winner>>

\* playTurn's continuation without its gameOver branch
playTurnThen_IgnoresGameOver(resp) ==
    /\ gameState' = resp.state
    /\ history' = IF resp.turnInfo # NoTurnInfo
                  THEN Append(history, resp.turnInfo)
                  ELSE history
    /\ loading' = FALSE
    /\ UNCHANGED <<gameId, gameOver, winner, autoPlay>>

\* playTurn's continuation putting the new entry first in the log
playTurnThen_Prepends(resp) ==
    /\ gameState' = resp.state
    /\ history' = IF resp.turnInfo # NoTurnInfo
                  THEN <<resp.turnInfo>> \o history
                  ELSE history
    /\ IF resp.gameOver
       THEN /\ gameOver' = TRUE
            /\ winner' = resp.winner
            /\ autoPlay' = FALSE
       ELSE UNCHANGED <<gameOver, winner, autoPlay>>
    /\ loading' = FALSE
    /\ UNCHANGED gameId

\* playTurn's continuation without the final setLoading(false)
playTurnThen_KeepsLoading(resp) ==
    /\ gameState' = resp.state
    /\ history' = IF resp.turnInfo # NoTurnInfo
                  THEN Append(history, resp.turnInfo)
                  ELSE history
    /\ IF resp.gameOver
       THEN /\ gameOver' = TRUE
            /\ winner' = resp.winner
            /\ autoPlay' = FALSE
       ELSE UNCHANGED <<gameOver, winner, autoPlay>>
    /\ UNCHANGED <<gameId, loading>>

\* playTurn's continuation without the `if (turnInfo)` test
playTurnThen_AppendsAlways(resp) ==
    /\ gameState' = resp.state
    /\ history' = Append(history, resp.turnInfo)
    /\ IF resp.gameOver
       THEN /\ gameOver' = TRUE
            /\ winner' = resp.winner
            /\ autoPlay' = FALSE
       ELSE UNCHANGED <<gameOver, winner, autoPlay>>
    /\ loading' = FALSE
    /\ UNCHANGED gameId

playTurnThen(resp) ==
    /\ gameState' = resp.state
    /\ history' = IF resp.turnInfo # NoTurnInfo
                  THEN Append(history, resp.turnInfo)
                  ELSE history
    /\ IF resp.gameOver
       THEN /\ gameOver' = TRUE
            /\ winner' = resp.winner
            /\ autoPlay' = FALSE
       ELSE UNCHANGED <<gameOver, winner, autoPlay>>
    /\ loading' = FALSE
    /\ UNCHANGED gameId

\* playTurn's catch without setAutoPlay(false)
playTurnCatch_KeepsAutoPlay ==
    /\ loading' = FALSE
    /\ UNCHANGED <<gameState, gameId, history, autoPlay, gameOver, winner>>

playTurnCatch ==
    /\ autoPlay' = FALSE
    /\ loading' = FALSE
    /\ UNCHANGED <<gameState, gameId, history, gameOver, winner>>

\* -------------------------------------------------------- fastForward
fastForward ==
    IF gameId = NoGame \/ gameOver
    THEN UNCHANGED <<gameState, gameId, history, loading, autoPlay,
                     gameOver, winner, inflight>>
    ELSE /\ loading' = TRUE
         /\ Send(Request("fast-forward", gameId, FALSE))
         /\ UNCHANGED <<gameState, gameId, history, autoPlay, gameOver,
                        winner>>

\* fastForward's continuation logging the batch as one entry
fastForwardThen_Appends(resp) ==
    /\ gameState' = resp.state
    /\ history' = Append(history, [turnIndex |-> resp.state.turnCount])
    /\ IF resp.gameOver
       THEN /\ gameOver' = TRUE
            /\ winner' = resp.winner
       ELSE UNCHANGED <<gameOver, winner>>
    /\ loading' = FALSE
    /\ UNCHANGED <<gameId, autoPlay>>

fastForwardThen(resp) ==
    /\ gameState' = resp.state
    /\ IF resp.gameOver
       THEN /\ gameOver' = TRUE
            /\ winner' = resp.winner
       ELSE UNCHANGED <<gameOver, winner>>
    /\ loading' = FALSE
    /\ UNCHANGED <<gameId, history, autoPlay>>

\* fastForward's catch dropping the state mirror
fastForwardCatch_DropsState ==
    /\ loading' = FALSE
    /\ gameState' = NoState
    /\ UNCHANGED <<gameId, history, autoPlay, gameOver, winner>>

fastForwardCatch ==
    /\ loading' = FALSE
    /\ UNCHANGED <<gameState, gameId, history, autoPlay, gameOver, winner>>

\* ---------------------------------------------------------- playToEnd
playToEnd ==
    IF gameId = NoGame \/ gameOver
    THEN UNCHANGED <<gameState, gameId, history, loading, autoPlay,
                     gameOver, winner, inflight>>
    ELSE /\ loading' = TRUE
         /\ Send(Request("play", gameId, FALSE))
         /\ UNCHANGED <<gameState, gameId, history, autoPlay, gameOver,
                        winner>>

\* playToEnd's continuation adding the full history to the log it has
playToEndThen_Appends(resp) ==
    /\ gameState' = resp.state
    /\ history' = history \o resp.history
    /\ gameOver' = TRUE
    /\ winner' = resp.winner
    /\ loading' = FALSE
    /\ UNCHANGED <<gameId, autoPlay>>

\* response.data.history || []: a missing history is the empty sequence
playToEndThen(resp) ==
    /\ gameState' = resp.state
    /\ history' = resp.history
    /\ gameOver' = TRUE
    /\ winner' = resp.winner
    /\ loading' = FALSE
    /\ UNCHANGED <<gameId, autoPlay>>

playToEndCatch ==
    /\ loading' = FALSE
    /\ UNCHANGED <<gameState, gameId, history, autoPlay, gameOver, winner>>

\* ------------------------------------------------- the New Game handlers
\* the New Game button of the controls
\* the New Game button without setAutoPlay(false)
newGameButton_KeepsAutoPlay ==
    /\ gameId' = NoGame
    /\ gameState' = NoState
    /\ gameOver' = FALSE
    /\ UNCHANGED <<history, loading, winner, autoPlay>>

newGameButton ==
    /\ gameId' = NoGame
    /\ gameState' = NoState
    /\ gameOver' = FALSE
    /\ autoPlay' = FALSE
    /\ UNCHANGED <<history, loading, winner>>

\* onNewGame of the game-over modal
modalNewGame ==
    /\ gameId' = NoGame
    /\ gameState' = NoState
    /\ gameOver' = FALSE
    /\ winner' = NoWinner
    /\ UNCHANGED <<history, loading, autoPlay>>

\* ================================================== controller actions
\* ---- observer commands
ClickStartGame ==
    /\ CanStart
    /\ Cardinality({g \in GameIds : engine[g].exists})
         + Len(SelectSeq(inflight, LAMBDA r : r.kind = "new")) < MaxSessions
    /\ startNewGame
    /\ AutoPlayEffect(timer)
    /\ Observe("startNewGame", inflight'[Len(inflight')], NoResponse,
               completedSeen, FALSE, stepRun)
    /\ UNCHANGED <<engine, lost>>

ClickPlayTurn ==
    /\ CanStep
    /\ playTurn(gameId, gameOver, FALSE)
    /\ AutoPlayEffect(timer)
    /\ Observe("playTurn", Request("turn", gameId, FALSE), NoResponse,
               completedSeen, FALSE, stepRun)
    /\ UNCHANGED <<engine, lost>>

ClickAutoPlay ==
    /\ CanToggleAutoPlay
    /\ autoPlay' = ~autoPlay
    /\ UNCHANGED <<gameState, gameId, history, loading, gameOver, winner,
                   inflight, engine, lost>>
    /\ AutoPlayEffect(timer)
    /\ Observe("toggleAutoPlay", NoRequest, NoResponse,
               completedSeen, FALSE, -1)

ClickFastForward ==
    /\ CanFastForward
    /\ fastForward
    /\ AutoPlayEffect(timer)
    /\ Observe("fastForward", Request("fast-forward", gameId, FALSE),
               NoResponse, completedSeen, FALSE, -1)
    /\ UNCHANGED <<engine, lost>>

ClickPlayToEnd ==
    /\ CanPlayToEnd
    /\ playToEnd
    /\ AutoPlayEffect(timer)
    /\ Observe("playToEnd", Request("play", gameId, FALSE), NoResponse,
               completedSeen, FALSE, -1)
    /\ UNCHANGED <<engine, lost>>

ClickNewGame ==
    /\ GameView
    /\ newGameButton
    /\ AutoPlayEffect(timer)
    /\ Observe("newGameButton", NoRequest, NoResponse,
               completedSeen, FALSE, -1)
    /\ UNCHANGED <<inflight, engine, lost>>

ClickModalNewGame ==
    /\ ModalShown
    /\ modalNewGame
    /\ AutoPlayEffect(timer)
    /\ Observe("modalNewGame", NoRequest, NoResponse,
               completedSeen, FALSE, -1)
    /\ UNCHANGED <<inflight, engine, lost>>

\* ---- the auto-play timer fires: setTimeout(playTurn, 500)
TimerFire ==
    /\ timer.set
    /\ playTurn(timer.gameId, timer.gameOver, TRUE)
    /\ AutoPlayEffect(NoTimer)
    /\ Observe("timer", Request("turn", timer.gameId, TRUE), NoResponse,
               completedSeen, autoFailed, -1)
    /\ UNCHANGED <<engine, lost>>

\* ---- a request resolves: the engine serves it and the handler resumes
Resolve(i, thenOp) ==
    /\ inflight' = RemoveAt(inflight, i)
    /\ AutoPlayEffect(timer)

startNewGameOk ==
    \E i \in 1..Len(inflight) : \E o \in EngineServe(inflight[i]) :
        /\ inflight[i].kind = "new"
        /\ engine' = o[2]
        /\ UNCHANGED lost
        /\ startNewGameThen(o[1])
        /\ Resolve(i, "startNewGameThen")
        /\ Observe("startNewGameThen", inflight[i], o[1], FALSE,
                   autoFailed, 0)

startNewGameFail ==
    \E i \in 1..Len(inflight) : \E e \in EngineAfterFailure(inflight[i]) :
        /\ inflight[i].kind = "new"
        /\ engine' = e[1]
        /\ lost' = e[2]
        /\ startNewGameCatch
        /\ Resolve(i, "startNewGameCatch")
        /\ Observe("startNewGameCatch", inflight[i], Failure,
                   completedSeen, autoFailed, -1)

playTurnOk ==
    \E i \in 1..Len(inflight) : \E o \in EngineServe(inflight[i]) :
        /\ inflight[i].kind = "turn"
        /\ engine' = o[2]
        /\ UNCHANGED lost
        /\ playTurnThen(o[1])
        /\ Resolve(i, "playTurnThen")
        /\ Observe("playTurnThen", inflight[i], o[1],
                   completedSeen \/ o[1].gameOver, autoFailed,
                   IF stepRun >= 0 /\ ~inflight[i].auto
                   THEN stepRun + 1 ELSE -1)

playTurnFail ==
    \E i \in 1..Len(inflight) : \E e \in EngineAfterFailure(inflight[i]) :
        /\ inflight[i].kind = "turn"
        /\ engine' = e[1]
        /\ lost' = e[2]
        /\ playTurnCatch
        /\ Resolve(i, "playTurnCatch")
        /\ Observe("playTurnCatch", inflight[i], Failure,
                   completedSeen, autoFailed \/ autoPlay, -1)

fastForwardOk ==
    \E i \in 1..Len(inflight) : \E o \in EngineServe(inflight[i]) :
        /\ inflight[i].kind = "fast-forward"
        /\ engine' = o[2]
        /\ UNCHANGED lost
        /\ fastForwardThen(o[1])
        /\ Resolve(i, "fastForwardThen")
        /\ Observe("fastForwardThen", inflight[i], o[1],
                   completedSeen \/ o[1].gameOver, autoFailed, -1)

fastForwardFail ==
    \E i \in 1..Len(inflight) : \E e \in EngineAfterFailure(inflight[i]) :
        /\ inflight[i].kind = "fast-forward"
        /\ engine' = e[1]
        /\ lost' = e[2]
        /\ fastForwardCatch
        /\ Resolve(i, "fastForwardCatch")
        /\ Observe("fastForwardCatch", inflight[i], Failure,
                   completedSeen, autoFailed, -1)

playToEndOk ==
    \E i \in 1..Len(inflight) : \E o \in EngineServe(inflight[i]) :
        /\ inflight[i].kind = "play"
        /\ engine' = o[2]
        /\ UNCHANGED lost
        /\ playToEndThen(o[1])
        /\ Resolve(i, "playToEndThen")
        /\ Observe("playToEndThen", inflight[i], o[1], TRUE, autoFailed, -1)

playToEndFail ==
    \E i \in 1..Len(inflight) : \E e \in EngineAfterFailure(inflight[i]) :
        /\ inflight[i].kind = "play"
        /\ engine' = e[1]
        /\ lost' = e[2]
        /\ playToEndCatch
        /\ Resolve(i, "playToEndCatch")
        /\ Observe("playToEndCatch", inflight[i], Failure,
                   completedSeen, autoFailed, -1)

\* ====================================================== Session Gateway
GatewayGameIds == 1..MaxGatewayGames

Routes == {"new", "state", "turn", "play", "fast-forward", "delete",
           "simulate"}

\* the routes with :gameId in their path
GameRoutes == Routes \ {"new", "simulate"}

\* ---- what the engine call gives: response.data, or the axios error
\* status 0: no response at all (error.response is undefined);
\* message "": the error body carries no `error` field
EngineOk(data) == [ok |-> TRUE, data |-> data, status |-> 200, message |-> ""]

EngineError(status, message) ==
    [ok |-> FALSE, data |-> Failure, status |-> status, message |-> message]

NoEngineResult == EngineError(0, "")

EngineErrors ==
    {EngineError(0, "")} \cup
    {EngineError(st, m) : st \in {404, 500}, m \in {"", "engine says no"}}

\* the data the engine may answer a route with
EngineData(route, gid) ==
    CASE route = "new" ->
           {Response(TRUE, g, StateOf(g, 0), NoTurnInfo, FALSE, NoWinner, <<>>) :
              g \in GatewayGameIds}
      [] route = "state" ->
           {Response(TRUE, gid, StateOf(gid, tc), NoTurnInfo, FALSE, NoWinner, <<>>) :
              tc \in 0..MaxGatewayTurns}
      [] route = "turn" ->
           {Response(TRUE, gid, StateOf(gid, tc), [turnIndex |-> tc],
                     w # NoWinner, w, <<>>) :
              tc \in 1..MaxGatewayTurns, w \in Winners}
           \cup {Response(TRUE, gid, StateOf(gid, tc), [turnIndex |-> tc],
                          TRUE, NoWinner, <<>>) : tc \in 1..MaxGatewayTurns}
      [] route = "fast-forward" ->
           {Response(TRUE, gid, StateOf(gid, tc), NoTurnInfo,
                     w # NoWinner, w, <<>>) :
              tc \in 1..MaxGatewayTurns, w \in Winners}
      [] route = "play" ->
           {WithTotalTurns(Response(TRUE, gid, StateOf(gid, tc), NoTurnInfo,
                                    TRUE, w, TurnLog(tc)), tt) :
              tc \in 1..MaxGatewayTurns, tt \in 1..MaxGatewayTurns,
              w \in Winners}
      [] route = "delete" ->
           {Response(TRUE, gid, NoState, NoTurnInfo, FALSE, NoWinner, <<>>)}
      [] route = "simulate" ->
           {Response(TRUE, NoGame, NoState, NoTurnInfo, FALSE, NoWinner, <<>>)}

\* ---- HTTP responses
\* items: the list of a list response ({games: [...]}, {tournaments: [...]})
Json(status, kind, data, error) ==
    [status |-> status, kind |-> kind, data |-> data, error |-> error,
     items |-> {}]

NoRes == Json(0, "none", Failure, "")

\* res.json(data) of each handler's try block
SuccessResponse(route, data) ==
    IF route = "delete"
    THEN Json(200, "message", Failure, "Game deleted")
    ELSE Json(200, "data", data, "")

\* every catch block answering 500, none 404
ErrorResponse_AlwaysGeneric(route, err) ==
    Json(500, "error", Failure, "Failed")

\* the catch block of each handler
ErrorResponse(route, err) ==
    CASE route = "new" ->
           Json(500, "error", Failure,
                IF err.message # "" THEN err.message
                ELSE "Failed to create game")
      [] route = "state" ->
           IF err.status = 404
           THEN Json(404, "error", Failure, "Game not found")
           ELSE Json(500, "error", Failure, "Failed to fetch game state")
      [] route = "turn" ->
           IF err.status = 404
           THEN Json(404, "error", Failure, "Game not found")
           ELSE Json(500, "error", Failure, "Failed to play turn")
      [] route = "play" ->
           Json(500, "error", Failure, "Failed to play full game")
      [] route = "fast-forward" ->
           Json(500, "error", Failure, "Failed to fast forward")
      [] route = "delete" ->
           Json(500, "error", Failure, "Failed to delete game")
      [] route = "simulate" ->
           Json(500, "error", Failure, "Failed to run simulation")

\* the turn handler's test negated: `if (!turnData.gameOver)`
Mirrors_TurnInverted(route, data) ==
    \/ route \in {"new", "play", "delete", "simulate"}
    \/ route = "turn" /\ ~data.gameOver

\* the turn handler updating the record without the `if (turnData.gameOver)`
Mirrors_EveryTurn(route, data) ==
    \/ route \in {"new", "play", "delete", "simulate"}
    \/ route = "turn"

\* no History delete after the engine deleted the session
Mirrors_NeverOnDelete(route, data) ==
    \/ route \in {"new", "play", "simulate"}
    \/ route = "turn" /\ data.gameOver

\* the handlers that call the History Store once the engine call succeeded
Mirrors(route, data) ==
    \/ route \in {"new", "play", "delete", "simulate"}
    \/ route = "turn" /\ data.gameOver

\* a store error reaching the handler's outer catch
AfterStore_Propagates(route, data, result) ==
    IF result = "throws"
    THEN ErrorResponse(route, EngineError(0, ""))
    ELSE SuccessResponse(route, data)

\* the response after the inner try/catch around the store call:
\* the catch logs dbError.message and falls through to res.json
AfterStore(route, data, result) == SuccessResponse(route, data)

\* the whole handler: its response for an engine result and, where the
\* store is called, a store result
HandlerResponse(route, eng, result) ==
    IF ~eng.ok THEN ErrorResponse(route, eng)
    ELSE IF Mirrors(route, eng.data) THEN AfterStore(route, eng.data, result)
    ELSE SuccessResponse(route, eng.data)

\* ---- History Store documents
NoRecord == [present |-> FALSE, winner |-> NoWinner, totalTurns |-> 0,
             finalState |-> NoState, history |-> <<>>, completed |-> FALSE]

\* GameHistory.create({gameId, agent1, agent2, finalState, history: []})
CreatedRecord(data) ==
    [present |-> TRUE, winner |-> NoWinner, totalTurns |-> 0,
     finalState |-> data.state, history |-> <<>>, completed |-> FALSE]

\* findOneAndUpdate with {upsert: true}: a completion creates the record
StoreCall_Upserts(route, gid, data) ==
    CASE route = "new" ->
           IF gameHistory[data.gameId].present
           THEN [result |-> "throws", games |-> gameHistory,
                 tours |-> tournaments]
           ELSE [result |-> "ok",
                 games |-> [gameHistory EXCEPT
                              ![data.gameId] = CreatedRecord(data)],
                 tours |-> tournaments]
      [] route = "turn" ->
           [result |-> "ok",
            games |-> IF TRUE
                      THEN [gameHistory EXCEPT
                              ![gid].present = TRUE,
                              ![gid].winner = data.winner,
                              ![gid].totalTurns = data.state.turnCount,
                              ![gid].finalState = data.state,
                              ![gid].completed = TRUE]
                      ELSE gameHistory,
            tours |-> tournaments]
      [] route = "play" ->
           [result |-> "ok",
            games |-> IF TRUE
                      THEN [gameHistory EXCEPT
                              ![gid].present = TRUE,
                              ![gid].winner = data.winner,
                              ![gid].totalTurns = data.totalTurns,
                              ![gid].finalState = data.state,
                              ![gid].history = data.history,
                              ![gid].completed = TRUE]
                      ELSE gameHistory,
            tours |-> tournaments]
      [] route = "delete" ->
           [result |-> "ok",
            games |-> [gameHistory EXCEPT ![gid] = NoRecord],
            tours |-> tournaments]
      [] route = "simulate" ->
           [result |-> "ok", games |-> gameHistory,
            tours |-> Min(tournaments + 1, MaxTournaments)]

\* the store call of a handler, on a reachable store: the collections
\* after it, or "throws" (gameId is a unique key)
StoreCall(route, gid, data) ==
    CASE route = "new" ->
           IF gameHistory[data.gameId].present
           THEN [result |-> "throws", games |-> gameHistory,
                 tours |-> tournaments]
           ELSE [result |-> "ok",
                 games |-> [gameHistory EXCEPT
                              ![data.gameId] = CreatedRecord(data)],
                 tours |-> tournaments]
      [] route = "turn" ->
           [result |-> "ok",
            games |-> IF gameHistory[gid].present
                      THEN [gameHistory EXCEPT
                              ![gid].winner = data.winner,
                              ![gid].totalTurns = data.state.turnCount,
                              ![gid].finalState = data.state,
                              ![gid].completed = TRUE]
                      ELSE gameHistory,
            tours |-> tournaments]
      [] route = "play" ->
           [result |-> "ok",
            games |-> IF gameHistory[gid].present
                      THEN [gameHistory EXCEPT
                              ![gid].winner = data.winner,
                              ![gid].totalTurns = data.totalTurns,
                              ![gid].finalState = data.state,
                              ![gid].history = data.history,
                              ![gid].completed = TRUE]
                      ELSE gameHistory,
            tours |-> tournaments]
      [] route = "delete" ->
           [result |-> "ok",
            games |-> [gameHistory EXCEPT ![gid] = NoRecord],
            tours |-> tournaments]
      [] route = "simulate" ->
           [result |-> "ok", games |-> gameHistory,
            tours |-> Min(tournaments + 1, MaxTournaments)]

\* ---- the handler, step by step
GatewayStep ==
    /\ dropped' =
         IF gwPc = "store" /\ gwPc' = "done" /\ gwReq.route = "new"
         THEN IF gwStore' = "throws"
                   /\ ~gameHistory[gwEngine.data.gameId].present
              THEN dropped \cup {gwEngine.data.gameId}
              ELSE IF gwStore' = "ok"
                   THEN dropped \ {gwEngine.data.gameId}
                   ELSE dropped
         ELSE dropped
    /\ UNCHANGED <<ctlVars, boardVars>>

\* a request arrives; the handler awaits the engine
GwReceive ==
    \E route \in Routes, gid \in GatewayGameIds :
        /\ gwPc = "idle"
        /\ gwPc' = "engine"
        /\ gwReq' = [route |-> route,
                     gameId |-> IF route \in GameRoutes THEN gid ELSE NoGame]
        /\ UNCHANGED <<gwEngine, gwStore, gwRes, storeUp, gameHistory,
                       tournaments>>
        /\ GatewayStep

\* the engine call throws: the outer catch answers
GwEngineFails ==
    /\ gwPc = "engine"
    /\ \E err \in EngineErrors :
        /\ gwEngine' = err
        /\ gwRes' = ErrorResponse(gwReq.route, err)
        /\ gwPc' = "done"
        /\ UNCHANGED <<gwReq, gwStore, storeUp, gameHistory, tournaments>>
        /\ GatewayStep

\* the engine call returns: the handler answers, or first awaits the store
GwEngineReturns ==
    /\ gwPc = "engine"
    /\ \E data \in EngineData(gwReq.route, gwReq.gameId) :
        /\ gwEngine' = EngineOk(data)
        /\ IF Mirrors(gwReq.route, data)
           THEN /\ gwPc' = "store"
                /\ UNCHANGED gwRes
           ELSE /\ gwPc' = "done"
                /\ gwRes' = SuccessResponse(gwReq.route, data)
        /\ UNCHANGED <<gwReq, gwStore, storeUp, gameHistory, tournaments>>
        /\ GatewayStep

\* the store call returns or throws; either way the handler answers
GwStoreReturns ==
    /\ gwPc = "store"
    /\ LET call == StoreCall(gwReq.route, gwReq.gameId, gwEngine.data)
           result == IF storeUp THEN call.result ELSE "throws"
       IN  /\ gwStore' = result
           /\ gameHistory' = IF storeUp THEN call.games ELSE gameHistory
           /\ tournaments' = IF storeUp THEN call.tours ELSE tournaments
           /\ gwRes' = AfterStore(gwReq.route, gwEngine.data, result)
    /\ gwPc' = "done"
    /\ UNCHANGED <<gwReq, gwEngine, storeUp>>
    /\ GatewayStep

\* ---- the list routes: GET /api/history and GET /api/tournaments
ListRoutes == {"history", "tournaments"}

\* GameHistory.find() / Tournament.find(): the documents of the collection
\* (the gameIds of the records; the tournaments by their number)
Find(route) ==
    IF route = "history"
    THEN {g \in GatewayGameIds : gameHistory[g].present}
    ELSE 1..tournaments

\* the catch block of a list handler answering 500 as the other handlers do
ListResponse_Fails(route, result) ==
    IF result = "throws"
    THEN Json(500, "error", Failure, "Database not available")
    ELSE [Json(200, "list", Failure, "") EXCEPT !.items = Find(route)]

\* res.json({games}) / res.json({tournaments}); the catch block answers
\* res.json({games: [], error: 'Database not available'}), status 200
ListResponse(route, result) ==
    IF result = "throws"
    THEN Json(200, "list", Failure, "Database not available")
    ELSE [Json(200, "list", Failure, "") EXCEPT !.items = Find(route)]

\* a list request arrives; the handler awaits the store's find()
GwReceiveList ==
    \E route \in ListRoutes :
        /\ gwPc = "idle"
        /\ gwPc' = "find"
        /\ gwReq' = [route |-> route, gameId |-> NoGame]
        /\ UNCHANGED <<gwEngine, gwStore, gwRes, storeUp, gameHistory,
                       tournaments>>
        /\ GatewayStep

\* find() returns the documents or throws; either way the handler answers
GwFindReturns ==
    /\ gwPc = "find"
    /\ LET result == IF storeUp THEN "ok" ELSE "throws"
       IN  /\ gwStore' = result
           /\ gwRes' = ListResponse(gwReq.route, result)
    /\ gwPc' = "done"
    /\ UNCHANGED <<gwReq, gwEngine, storeUp, gameHistory, tournaments>>
    /\ GatewayStep

\* the response is out; the next request may come
GwDone ==
    /\ gwPc = "done"
    /\ gwPc' = "idle"
    /\ gwReq' = [route |-> "none", gameId |-> NoGame]
    /\ gwEngine' = NoEngineResult
    /\ gwStore' = "none"
    /\ gwRes' = NoRes
    /\ UNCHANGED <<storeUp, gameHistory, tournaments>>
    /\ GatewayStep

\* the store goes away or comes back
StoreFlips ==
    /\ storeUp' = ~storeUp
    /\ UNCHANGED <<gwPc, gwReq, gwEngine, gwStore, gwRes, gameHistory,
                   tournaments>>
    /\ GatewayStep

\* ================================================================ board
\* ---- program constants
\* for (let i = 0; i < 40; i++)
BoardSize == 40

\* the district catalog, in its order (hex left out: display only)
colors ==
    << [name |-> "Brown",      basePrice |-> 60,  baseFare |-> 30],
       [name |-> "Light Blue", basePrice |-> 80,  baseFare |-> 40],
       [name |-> "Pink",       basePrice |-> 100, baseFare |-> 50],
       [name |-> "Orange",     basePrice |-> 120, baseFare |-> 60],
       [name |-> "Red",        basePrice |-> 150, baseFare |-> 75],
       [name |-> "Yellow",     basePrice |-> 180, baseFare |-> 90],
       [name |-> "Green",      basePrice |-> 220, baseFare |-> 110],
       [name |-> "Dark Blue",  basePrice |-> 280, baseFare |-> 140],
       [name |-> "Purple",     basePrice |-> 320, baseFare |-> 160] >>

\* the corners of the ring taken for the gamble tiles
gamblePositions_Corners == <<0, 10, 20, 30>>

gamblePositions == <<9, 19, 29, 39>>

\* gamblePositions.includes(idx)
IsGamble(idx) == \E k \in 1..Len(gamblePositions) : gamblePositions[k] = idx

\* colors is a JavaScript array, indexed from 0
colorIdx == propertyIdx \div 4

\* the position taken from the board index, gamble tiles counted in
posInColor_FromIndex == loopI % 4

posInColor == propertyIdx % 4

\* the tile the loop body pushes (name and hex left out: display only;
\* a gamble tile has no color, price or fare)
GambleTile == [index |-> loopI, type |-> "gamble", color |-> "", price |-> 0,
               fare |-> 0]

PropertyTile ==
    LET color == colors[colorIdx + 1]
    IN  [index |-> loopI, type |-> "property", color |-> color.name,
         price |-> color.basePrice + (posInColor * 10),
         fare |-> color.baseFare + (posInColor * 5)]

\* one iteration of the generation loop
BoardStep ==
    /\ loopI < BoardSize
    /\ IF IsGamble(loopI)
       THEN /\ board' = Append(board, GambleTile)
            /\ UNCHANGED propertyIdx
       ELSE /\ board' = Append(board, PropertyTile)
            /\ propertyIdx' = propertyIdx + 1
    /\ loopI' = loopI + 1
    /\ UNCHANGED <<tiles, ctlVars, gwVars>>

\* ---- the grid cell of a board index
\* the top edge starting one column to the left
getBoardPosition_TopShifted(index) ==
    IF index <= 10 THEN [row |-> 11, col |-> 11 - index]
    ELSE IF index <= 19 THEN [row |-> 11 - (index - 10), col |-> 1]
    ELSE IF index <= 30 THEN [row |-> 1, col |-> index - 20]
    ELSE [row |-> index - 29, col |-> 11]

getBoardPosition(index) ==
    IF index <= 10 THEN [row |-> 11, col |-> 11 - index]
    ELSE IF index <= 19 THEN [row |-> 11 - (index - 10), col |-> 1]
    ELSE IF index <= 30 THEN [row |-> 1, col |-> index - 19]
    ELSE [row |-> index - 29, col |-> 11]

\* GameBoard renders the next Tile of the board: tile.index is the tile's
\* place in the board array
RenderTile ==
    /\ Len(tiles) < BoardSize
    /\ tiles' = Append(tiles, getBoardPosition(Len(tiles)))
    /\ UNCHANGED <<board, propertyIdx, loopI, ctlVars, gwVars>>

\* ------------------------------------------------------- specification
NoEvent == [op |-> "init", req |-> NoRequest, resp |-> NoResponse,
            wasAuto |-> FALSE]

Init ==
    /\ gameState = NoState
    /\ gameId = NoGame
    /\ history = <<>>
    /\ loading = FALSE
    /\ autoPlay = FALSE
    /\ gameOver = FALSE
    /\ winner = NoWinner
    /\ timer = NoTimer
    /\ inflight = <<>>
    /\ engine = [g \in GameIds |-> NoSession]
    /\ lost = 0
    /\ ev = NoEvent
    /\ completedSeen = FALSE
    /\ autoFailed = FALSE
    /\ stepRun = -1
    /\ allLogged = TRUE
    /\ gwPc = "idle"
    /\ gwReq = [route |-> "none", gameId |-> NoGame]
    /\ gwEngine = NoEngineResult
    /\ gwStore = "none"
    /\ gwRes = NoRes
    /\ storeUp \in BOOLEAN
    /\ gameHistory = [g \in GatewayGameIds |-> NoRecord]
    /\ tournaments = 0
    /\ dropped = {}
    /\ board = <<>>
    /\ propertyIdx = 0
    /\ loopI = 0
    /\ tiles = <<>>

Next ==
    \/ ClickStartGame
    \/ ClickPlayTurn
    \/ ClickAutoPlay
    \/ ClickFastForward
    \/ ClickPlayToEnd
    \/ ClickNewGame
    \/ ClickModalNewGame
    \/ TimerFire
    \/ startNewGameOk
    \/ startNewGameFail
    \/ playTurnOk
    \/ playTurnFail
    \/ fastForwardOk
    \/ fastForwardFail
    \/ playToEndOk
    \/ playToEndFail

Spec == Init /\ [][Next]_vars

GatewayNext ==
    \/ GwReceive
    \/ GwEngineFails
    \/ GwEngineReturns
    \/ GwStoreReturns
    \/ GwReceiveList
    \/ GwFindReturns
    \/ GwDone
    \/ StoreFlips

GatewaySpec == Init /\ [][GatewayNext]_vars

\* ---- auto-play left to run: the engine answers every turn request, and
\* the observer does not cancel while auto-play is on (neither the Pause
\* toggle nor the New Game button)
AutoPlayNext ==
    \/ ClickStartGame
    \/ ClickPlayTurn
    \/ (~autoPlay /\ ClickAutoPlay)
    \/ ClickFastForward
    \/ ClickPlayToEnd
    \/ (~autoPlay /\ ClickNewGame)
    \/ ClickModalNewGame
    \/ TimerFire
    \/ startNewGameOk
    \/ startNewGameFail
    \/ playTurnOk
    \/ fastForwardOk
    \/ fastForwardFail
    \/ playToEndOk
    \/ playToEndFail

\* setTimeout(playTurn, 500) fires unless the effect's cleanup clears it;
\* the awaited request resolves once the engine has answered
AutoPlaySpec ==
    /\ Init
    /\ [][AutoPlayNext]_vars
    /\ WF_vars(TimerFire)
    /\ WF_vars(playTurnOk)

\* ---- the Gateway with an engine that answers every call and a History
\* Store that may never answer: the handler resumes when the awaited
\* engine call settles, and nothing makes the awaited store call settle
GatewayLiveSpec ==
    /\ Init
    /\ [][GatewayNext]_vars
    /\ WF_vars(GwEngineReturns \/ GwEngineFails)
    /\ WF_vars(GwDone)

BoardNext ==
    \/ BoardStep
    \/ RenderTile

BoardSpec == Init /\ [][BoardNext]_vars

\* ============================================================== claims
TurnRequests == SelectSeq(inflight, LAMBDA r : r.kind \in TurnKinds)

CatchOps == {"playTurnCatch", "fastForwardCatch", "playToEndCatch"}

\* C1: at every instant at most one turn-advancing request (single turn,
\* batch or play-to-end) is in flight, whatever the observer, the
\* auto-play timer and the engine do; an auto-play turn is issued only
\* after the previous one resolved.
C1_AtMostOneTurnInFlight == Len(TurnRequests) <= 1

\* an auto-play turn in flight after earlier turns were logged
C1_Witness ==
    /\ autoPlay
    /\ Len(inflight) = 1
    /\ inflight[1].kind = "turn"
    /\ inflight[1].auto
    /\ Len(history) >= 2

\* C3: once a response with completed=true was applied, and until a
\* session is created, no turn-advancing request is in flight or
\* scheduled, and Play Turn, Auto-Play, Skip and Play to End are not
\* available (playTurn itself returns at its guard).
C3_GameOverIsTerminal ==
    completedSeen =>
        /\ gameOver \/ gameId = NoGame
        /\ ~CanStep
        /\ ~CanToggleAutoPlay
        /\ ~CanFastForward
        /\ ~CanPlayToEnd
        /\ ~timer.set
        /\ TurnRequests = <<>>

\* a batch response completed the active session
C3_Witness ==
    /\ completedSeen
    /\ GameView
    /\ gameOver
    /\ ~loading
    /\ ev.op = "fastForwardThen"

\* C4: after a turn request failed while AutoPlaying, auto-play is off,
\* no timer is pending and no request is in flight until the observer's
\* next command, and the state mirror and the log are those the
\* controller had when it issued the request.
C4_AutoPlayFailureStops ==
    autoFailed =>
        /\ ev.op = "playTurnCatch"
        /\ ev.wasAuto
        /\ ~autoPlay
        /\ ~timer.set
        /\ inflight = <<>>
        /\ gameState = ev.req.snap.gameState
        /\ history = ev.req.snap.history

\* the failure came after some auto-play turns had succeeded
C4_Witness ==
    /\ autoFailed
    /\ ev.req.auto
    /\ Len(history) >= 2

\* C5, as stated: a step, batch or play-to-end failure with auto-play off
\* leaves the controller idle with the same session, and mirror, log,
\* gameOver and winner as they were when the request was issued.
C5_FailureRestoresSession ==
    (ev.op \in CatchOps /\ ~ev.wasAuto) =>
        /\ inflight = <<>>
        /\ ~loading
        /\ gameId = ev.req.snap.gameId
        /\ gameState = ev.req.snap.gameState
        /\ history = ev.req.snap.history
        /\ gameOver = ev.req.snap.gameOver
        /\ winner = ev.req.snap.winner

\* C5 where the session is still the active one as the failure is handled
\* (the observer did not press New Game while the request was in flight):
\* there the failure leaves the controller as the claim says.
C5_FailureRestoresActiveSession ==
    (ev.op \in CatchOps /\ ~ev.wasAuto /\ GameView) =>
        /\ inflight = <<>>
        /\ ~loading
        /\ gameId = ev.req.snap.gameId
        /\ gameState = ev.req.snap.gameState
        /\ history = ev.req.snap.history
        /\ gameOver = ev.req.snap.gameOver
        /\ winner = ev.req.snap.winner

\* a batch failed on a session with logged turns
C5_Witness ==
    /\ ev.op = "fastForwardCatch"
    /\ ~ev.wasAuto
    /\ GameView
    /\ Len(history) >= 1

\* C9: a fast-forward response replaces the state mirror by the
\* response's state and leaves the log as it was when the request was
\* issued, also when the response reports completion.
C9_BatchAppendsNothing ==
    ev.op = "fastForwardThen" =>
        /\ gameState = ev.resp.state
        /\ history = ev.req.snap.history

\* a completing batch on a session with logged turns
C9_Witness ==
    /\ ev.op = "fastForwardThen"
    /\ ev.resp.gameOver
    /\ ev.resp.state.turnCount > ev.req.snap.gameState.turnCount
    /\ Len(history) >= 1

\* C10: on a fresh session, after n successful steps issued one after
\* the other, the log holds n entries with turnIndex 1..n in order and
\* gameOver is the completed flag of the last response.
C10_SequentialSteps ==
    (stepRun >= 0 /\ inflight = <<>>) =>
        /\ Len(history) = stepRun
        /\ \A i \in 1..Len(history) : history[i].turnIndex = i
        /\ IF stepRun = 0
           THEN ~gameOver
           ELSE /\ ev.op = "playTurnThen"
                /\ gameOver = ev.resp.gameOver

\* five steps, the fifth reporting completion
C10_Witness ==
    /\ stepRun = 5
    /\ inflight = <<>>
    /\ gameOver

\* ------------------------------------------------------ Gateway claims
GwDoneWith(route) == gwPc = "done" /\ gwReq.route = route

EngineNotFound == ~gwEngine.ok /\ gwEngine.status = 404

\* C2: for create, turn, fast-forward, play, delete and simulate, the
\* response the handler sent is the one it sends for the same engine
\* result whether the History Store call succeeds or throws.
C2_StoreNeverAltersResponse ==
    (gwPc = "done" /\ gwReq.route \in Routes \ {"state"}) =>
        \A result \in {"ok", "throws"} :
            gwRes = HandlerResponse(gwReq.route, gwEngine, result)

\* a turn that ended the game, answered 200 with the engine's data
\* although the store update threw
C2_Witness ==
    /\ GwDoneWith("turn")
    /\ gwEngine.ok
    /\ gwEngine.data.gameOver
    /\ gwStore = "throws"
    /\ gwRes = Json(200, "data", gwEngine.data, "")

\* C6, as stated: on every route with a gameId, an engine 404 is
\* answered with status 404.
C6_NotFoundIsDistinct ==
    (gwPc = "done" /\ gwReq.route \in GameRoutes /\ EngineNotFound) =>
        gwRes.status = 404

\* C7: GET state answers 404 "Game not found" exactly when the engine
\* answered 404, 500 on every other engine failure, and the engine's
\* snapshot as it is on success.
C7_GetState ==
    GwDoneWith("state") =>
        /\ gwRes.status = 404 <=> EngineNotFound
        /\ gwRes.status = 404 =>
               gwRes = Json(404, "error", Failure, "Game not found")
        /\ (~gwEngine.ok /\ gwEngine.status # 404) => gwRes.status = 500
        /\ gwEngine.ok => gwRes = Json(200, "data", gwEngine.data, "")

\* the engine did not know the gameId
C7_Witness ==
    /\ GwDoneWith("state")
    /\ EngineNotFound
    /\ gwRes.status = 404

\* C8, as stated: the History delete is attempted after the engine call
\* whether it succeeded or failed, except when it failed with NotFound.
C8_DeleteMirrorsUnlessNotFound ==
    GwDoneWith("delete") => (gwStore # "none" <=> ~EngineNotFound)

\* C8, amended: the History delete is attempted exactly when the engine
\* call succeeded; after any engine failure the handler answers 500
\* without calling the store. A delete the store carried out leaves no
\* record for the gameId.
C8_DeleteMirrorsOnlyOnSuccess ==
    GwDoneWith("delete") =>
        /\ gwStore # "none" <=> gwEngine.ok
        /\ gwStore = "ok" => ~gameHistory[gwReq.gameId].present
        /\ ~gwEngine.ok => gwRes.status = 500

\* the engine deleted the session and the store deleted the record
C8_Witness ==
    /\ GwDoneWith("delete")
    /\ gwEngine.ok
    /\ gwStore = "ok"
    /\ gwRes.status = 200

\* C11: GET /api/history and GET /api/tournaments never answer 5xx: with the
\* History Store unavailable they answer 200 with an empty list and a
\* non-empty error marker; with the store reachable, 200 with its documents.
C11_ListRoutesDegrade ==
    (gwPc = "done" /\ gwReq.route \in ListRoutes) =>
        /\ gwRes.status = 200
        /\ gwRes.kind = "list"
        /\ gwStore = "throws" => (gwRes.items = {} /\ gwRes.error # "")
        /\ gwStore = "ok" => (gwRes.items = Find(gwReq.route)
                               /\ gwRes.error = "")

\* the history list was asked for while the store was down, after it had
\* taken a record
C11_Witness ==
    /\ gwPc = "done"
    /\ gwReq.route = "history"
    /\ gwStore = "throws"
    /\ Find("history") # {}
    /\ gwRes.status = 200

\* ---- the turn log
\* turnIndex grows from each entry to the next
Increasing(log) ==
    \A k \in 1..(Len(log) - 1) : log[k].turnIndex < log[k + 1].turnIndex

\* the entries are those of turns 1, 2, ... of the session, none missing
ContiguousFromStart(log) == \A k \in 1..Len(log) : log[k].turnIndex = k

\* C15, as stated: with an active session the log is strictly increasing
\* in turnIndex and contiguous from the session's first turn.
C15_LogContiguous ==
    gameId # NoGame => (Increasing(history) /\ ContiguousFromStart(history))

\* C15, amended: with an active session the log is strictly increasing in
\* turnIndex; it is contiguous from the session's first turn as long as
\* every turn the session has played was answered with its log entry (no
\* batch was issued and no request failed since create, or play-to-end has
\* replaced the log). A batch, or a turn whose response was lost, leaves
\* turns without an entry.
C15_LogIncreasing ==
    gameId # NoGame =>
        /\ Increasing(history)
        /\ allLogged => ContiguousFromStart(history)

\* auto-play has carried on a log without a gap
C15_Witness ==
    /\ gameId # NoGame
    /\ allLogged
    /\ Len(history) >= 3
    /\ ev.op = "playTurnThen"
    /\ ev.req.auto
    /\ ev.req.snap.history # <<>>

\* C16: a successful single-turn response that carries a turn log entry
\* leaves the log as it was when the request was issued with exactly that
\* entry added at its end; a successful play-to-end response leaves the log
\* equal to the history of the response, whatever it held before.
C16_LogUpdates ==
    /\ (ev.op = "playTurnThen" /\ ev.resp.turnInfo # NoTurnInfo) =>
           history = Append(ev.req.snap.history, ev.resp.turnInfo)
    /\ (ev.op = "playTurnThen" /\ ev.resp.turnInfo = NoTurnInfo) =>
           history = ev.req.snap.history
    /\ ev.op = "playToEndThen" => history = ev.resp.history

\* play-to-end has replaced a log with a gap by the full history
C16_Witness ==
    /\ ev.op = "playToEndThen"
    /\ ev.req.snap.history # <<>>
    /\ ~ContiguousFromStart(ev.req.snap.history)
    /\ ContiguousFromStart(history)
    /\ Len(history) > Len(ev.req.snap.history)

\* the request kinds in flight
InFlightKinds == {inflight[k].kind : k \in 1..Len(inflight)}

\* C17: auto-play is never on without an active session, never on in
\* GameOver, never on while a batch or play-to-end request is in flight,
\* and never on while a step issued by hand is in flight; every response
\* with completed = true, from any mode, leaves auto-play off.
C17_ModesExclusive ==
    /\ autoPlay =>
           /\ gameId # NoGame
           /\ ~gameOver
           /\ InFlightKinds \subseteq {"turn"}
           /\ \A k \in 1..Len(inflight) : inflight[k].auto
    /\ (ev.op \in {"playTurnThen", "fastForwardThen", "playToEndThen"}
          /\ ev.resp.gameOver) => ~autoPlay

\* an auto-play turn ended the game and switched auto-play off
C17_Witness ==
    /\ ev.op = "playTurnThen"
    /\ ev.req.auto
    /\ ev.wasAuto
    /\ ev.resp.gameOver
    /\ gameOver
    /\ ~autoPlay

\* an auto-play turn request is in flight
AutoTurnInFlight == \E k \in 1..Len(inflight) : inflight[k].auto

ThenOps == {"startNewGameThen", "playTurnThen", "fastForwardThen",
            "playToEndThen"}

\* C18: while an auto-play turn request is in flight the controller stays
\* in AutoPlaying until the response has been applied; a turn is scheduled
\* only while auto-play is on and no request is in flight, so a cancelled
\* schedule issues no turn; a response that has been applied is in flight
\* no more, so it is applied once.
C18_LeftOnlyAtBoundary ==
    /\ AutoTurnInFlight => autoPlay
    /\ timer.set => (autoPlay /\ inflight = <<>> /\ timer.gameId = gameId)
    /\ ev.op = "timer" => ev.wasAuto
    /\ ev.op \in ThenOps => \A k \in 1..Len(inflight) : inflight[k] # ev.req

\* C19: with a fair timer, an engine that answers every turn request and
\* completes the session after finitely many turns, and no cancel by the
\* observer, auto-play has a turn scheduled or in flight for as long as it
\* is on, and a controller with auto-play on eventually reaches GameOver
\* (with auto-play off).
C19_AutoPlayReachesGameOver ==
    /\ [](autoPlay => (timer.set \/ AutoTurnInFlight))
    /\ autoPlay ~> (gameOver /\ ~autoPlay)

\* auto-play alone has played a session from its first turn to its end
C19_Witness ==
    /\ gameOver
    /\ ~autoPlay
    /\ ev.op = "playTurnThen"
    /\ ev.req.auto
    /\ allLogged
    /\ Len(history) >= 3
    /\ inflight = <<>>

\* C20: right after a create response has been applied the log is empty,
\* gameOver is false, winner is null, auto-play is off, the session is
\* the created one and the state mirror is the state of the response,
\* whatever log, winner or mirror the controller held before.
C20_CreateResets ==
    ev.op = "startNewGameThen" =>
        /\ history = <<>>
        /\ ~gameOver
        /\ winner = NoWinner
        /\ ~autoPlay
        /\ gameId = ev.resp.gameId
        /\ gameId # NoGame
        /\ gameState = ev.resp.state
        /\ ~loading

\* a session created over the log, winner and mirror an earlier session
\* left behind
C20_Witness ==
    /\ ev.op = "startNewGameThen"
    /\ ev.req.snap.history # <<>>
    /\ ev.req.snap.winner # NoWinner
    /\ ev.req.snap.gameState # NoState
    /\ history = <<>>

\* C21, as stated: winner is non-null only while gameOver is true.
C21_WinnerOnlyWhenOver == winner # NoWinner => gameOver

\* ---- the History record of the request being handled
\* the store call of the handler returns in this step, the store reachable
StoreAnswers(route) ==
    /\ gwPc = "store"
    /\ gwPc' = "done"
    /\ gwReq.route = route
    /\ storeUp

\* C22: with the store available and a record present for the gameId, the
\* store call of a turn with gameOver = true leaves the record with the
\* response's winner, turn count and final state and a completion time,
\* and nothing else changed; while a turn with gameOver = false is handled
\* the store does not change; the store call of play-to-end leaves the
\* record with the response's history, winner, totalTurns and final state
\* and a completion time.
C22_CompletionRecord ==
    [][LET gid == gwReq.gameId
           data == gwEngine.data
       IN  /\ (StoreAnswers("turn") /\ gameHistory[gid].present) =>
                  /\ data.gameOver
                  /\ gameHistory' =
                       [gameHistory EXCEPT
                          ![gid] = [present |-> TRUE,
                                    winner |-> data.winner,
                                    totalTurns |-> data.state.turnCount,
                                    finalState |-> data.state,
                                    history |-> gameHistory[gid].history,
                                    completed |-> TRUE]]
           /\ (gwReq.route = "turn" /\ gwEngine'.ok
                 /\ ~gwEngine'.data.gameOver) =>
                  UNCHANGED <<gameHistory, tournaments>>
           /\ (StoreAnswers("play") /\ gameHistory[gid].present) =>
                  gameHistory' =
                    [gameHistory EXCEPT
                       ![gid] = [present |-> TRUE,
                                 winner |-> data.winner,
                                 totalTurns |-> data.totalTurns,
                                 finalState |-> data.state,
                                 history |-> data.history,
                                 completed |-> TRUE]]
      ]_vars

\* play-to-end has overwritten the record of a session with the full
\* history and a totalTurns that differs from the final state's count
C22_Witness ==
    /\ GwDoneWith("play")
    /\ gwStore = "ok"
    /\ gameHistory[gwReq.gameId].present
    /\ gameHistory[gwReq.gameId].completed
    /\ gameHistory[gwReq.gameId].history = gwEngine.data.history
    /\ Len(gameHistory[gwReq.gameId].history) >= 2
    /\ gameHistory[gwReq.gameId].totalTurns = gwEngine.data.totalTurns
    /\ gwEngine.data.totalTurns # gwEngine.data.state.turnCount

\* C23: once the engine call of a state-changing request has returned
\* successfully, the Gateway eventually sends its response, whether the
\* History Store call succeeds, fails or never answers.
C23_MirroringNeverBlocks ==
    (gwPc = "store" /\ gwEngine.ok) ~> gwPc = "done"
\* the property tiles of a board, in board order
PropertyTiles(b) == SelectSeq(b, LAMBDA t : t.type = "property")

\* the tiles of one district, in board order
DistrictTiles(b, name) ==
    SelectSeq(b, LAMBDA t : t.type = "property" /\ t.color = name)

\* C12: the generated board has exactly 40 tiles with board[k].index = k;
\* exactly the 4 tiles at 9, 19, 29 and 39 (the last index of each 10-tile
\* edge) are gamble tiles; the other 36 are property tiles that, taken in
\* index order, fall into the 9 districts in catalog order, 4 tiles each.
C12_BoardLayout ==
    loopI = BoardSize =>
        /\ Len(board) = 40
        /\ \A k \in 0..39 : board[k + 1].index = k
        /\ {k \in 0..39 : board[k + 1].type = "gamble"} = {9, 19, 29, 39}
        /\ \A k \in 0..39 : k % 10 = 9 <=> board[k + 1].type = "gamble"
        /\ \A k \in 0..39 : board[k + 1].type \in {"gamble", "property"}
        /\ Len(PropertyTiles(board)) = 36
        /\ Len(colors) = 9
        /\ \A j \in 1..36 :
               PropertyTiles(board)[j].color = colors[((j - 1) \div 4) + 1].name
        /\ \A d \in 1..9 : Len(DistrictTiles(board, colors[d].name)) = 4

\* the loop has run to its end: the last tile is a gamble tile, the one
\* before it the last tile of the last district
C12_Witness ==
    /\ loopI = BoardSize
    /\ board[40].type = "gamble"
    /\ board[39].color = "Purple"
    /\ board[1].color = "Brown"

\* C13: within every district the four tiles, in board order, have
\* price = basePrice + 10 * position and fare = baseFare + 5 * position for
\* position 0..3, so price and fare grow by exactly 10 and 5 from each tile
\* of the district to the next, also across a gamble tile.
C13_DistrictPricing ==
    loopI = BoardSize =>
        \A d \in 1..Len(colors) :
            LET ts == DistrictTiles(board, colors[d].name)
            IN  /\ Len(ts) = 4
                /\ \A k \in 1..4 :
                       /\ ts[k].price = colors[d].basePrice + 10 * (k - 1)
                       /\ ts[k].fare = colors[d].baseFare + 5 * (k - 1)
                /\ \A k \in 1..3 :
                       /\ ts[k + 1].index > ts[k].index
                       /\ ts[k + 1].price = ts[k].price + 10
                       /\ ts[k + 1].fare = ts[k].fare + 5

\* the Pink district lies on both sides of the gamble tile at index 9
C13_Witness ==
    /\ loopI = BoardSize
    /\ board[9].color = "Pink"
    /\ board[10].type = "gamble"
    /\ board[11].color = "Pink"
    /\ board[11].price = board[9].price + 10
    /\ board[11].fare = board[9].fare + 5

\* the perimeter cells of the 11x11 grid
Perimeter ==
    {c \in [row : 1..11, col : 1..11] :
        c.row \in {1, 11} \/ c.col \in {1, 11}}

\* C14: getBoardPosition maps 0..39 one-to-one onto the 40 perimeter cells
\* of the 11x11 grid: every tile lies on the perimeter, no two tiles share a
\* cell, the 40 tiles fill the perimeter, and the tiles 0, 10, 20 and 30
\* lie on the four corners of the grid.
C14_PositionBijection ==
    /\ \A k \in 1..Len(tiles) : tiles[k] \in Perimeter
    /\ \A k, l \in 1..Len(tiles) : tiles[k] = tiles[l] => k = l
    /\ Cardinality(Perimeter) = 40
    /\ Len(tiles) = 40 => {tiles[k] : k \in 1..40} = Perimeter
    /\ \A k \in 1..Len(tiles) :
           (k - 1) \in {0, 10, 20, 30} <=>
               (tiles[k].row \in {1, 11} /\ tiles[k].col \in {1, 11})
    /\ Len(tiles) = 40 =>
           {tiles[k] : k \in {1, 11, 21, 31}} = [row : {1, 11}, col : {1, 11}]

\* the whole ring is rendered, ending next to tile 0 on the right edge
C14_Witness ==
    /\ Len(tiles) = BoardSize
    /\ tiles[1] = [row |-> 11, col |-> 11]
    /\ tiles[40] = [row |-> 10, col |-> 11]
    /\ tiles[21] = [row |-> 1, col |-> 1]

\* C24: a gameId whose create write was lost has no History record at any
\* later time, whatever the store and the handlers do afterwards: also
\* with the store back and the session completed by turn or play-to-end.
C24_DroppedWriteIsLost ==
    \A g \in dropped : ~gameHistory[g].present

\* the store is back and has answered the completion update of a session
\* whose create write was lost: there is still no record
C24_Witness ==
    /\ gwPc = "done"
    /\ gwReq.route \in {"turn", "play"}
    /\ gwReq.gameId \in dropped
    /\ gwEngine.ok
    /\ gwEngine.data.gameOver
    /\ gwStore = "ok"
    /\ storeUp
    /\ ~gameHistory[gwReq.gameId].present

\* the collections of the History Store
Store == <<gameHistory, tournaments>>

\* the engine call of the request answered successfully on a route, and
\* with data, after which the claim lets the Gateway write
WriteAllowed(route, eng) ==
    /\ eng.ok
    /\ \/ route \in {"new", "play", "delete", "simulate"}
       \/ route = "turn" /\ eng.data.gameOver

\* C25: the store changes only in a step that is the store call of a
\* request whose engine call succeeded on create, turn with gameOver = true,
\* play-to-end, delete or simulate; a request answered after a failed
\* engine call, a getState, a fast-forward (also with gameOver = true) or a
\* turn with gameOver = false was answered without a store call.
C25_WritesOnlyAfterSuccess ==
    /\ [][Store' # Store =>
             /\ gwPc = "store"
             /\ WriteAllowed(gwReq.route, gwEngine)]_vars
    /\ []((gwPc = "done" /\ gwReq.route \in Routes
            /\ ~WriteAllowed(gwReq.route, gwEngine)) => gwStore = "none")
    /\ []((gwPc = "store") => WriteAllowed(gwReq.route, gwEngine))

\* a fast-forward that reported gameOver = true was answered without a
\* store call, the record of its session left uncompleted
C25_Witness ==
    /\ GwDoneWith("fast-forward")
    /\ gwEngine.ok
    /\ gwEngine.data.gameOver
    /\ gwStore = "none"
    /\ storeUp
    /\ gameHistory[gwReq.gameId].present
    /\ ~gameHistory[gwReq.gameId].completed

\* the continuations that apply the response of a session's request
SessionThenOps == {"playTurnThen", "fastForwardThen", "playToEndThen"}

\* C26: a response applied while a session is active is the response to a
\* request issued for that session, so the mirror of an active session is
\* a state of that session; a create request is issued, and is in flight,
\* with no other request in flight.
C26_NoCrossSession ==
    /\ (ev.op \in SessionThenOps /\ gameId # NoGame) =>
           /\ ev.req.gid = gameId
           /\ ev.resp.gameId = gameId
    /\ gameId # NoGame => gameState.gid = gameId
    /\ (\E k \in 1..Len(inflight) : inflight[k].kind = "new") =>
           Len(inflight) = 1

\* a second session is active, after a first one was created, and a turn
\* response of its own has been applied and logged
C26_Witness ==
    /\ ev.op = "playTurnThen"
    /\ gameId = 2
    /\ ev.req.gid = 2
    /\ engine[1].exists
    /\ lost = 0
    /\ history # <<>>

\* C27, as stated: a response applied with no active session leaves the
\* mirror empty and gameOver false, and the log and winner as they were
\* right after New Game.
C27_LateResponseIgnored ==
    (ev.op \in SessionThenOps /\ gameId = NoGame) =>
        /\ gameState = NoState
        /\ ~gameOver
        /\ history = ev.req.snap.history
        /\ winner = ev.req.snap.winner

====
